---- MODULE Spec2Model ----
(***************************************************************************)
(* Model of the Brainfuck-to-LLVM compiler (class BrainfuckCompiler) and   *)
(* of the programs it generates.                                           *)
(*                                                                         *)
(* Two layers are modelled:                                                *)
(*   - the compiler: compile() and the steps it calls (checkBrackets,      *)
(*     createMainFunction, allocateMemory, setupRuntimeFunctions,          *)
(*     generateIR with its eight handlers, verifyModule, optimizeModule,   *)
(*     executeJIT / emitObjectFile);                                       *)
(*   - the generated program: the basic blocks that the handlers emit,     *)
(*     executed one emitted instruction group at a time on the byte array  *)
(*     and the data pointer, following LLVM IR semantics (nuw/nsw flags    *)
(*     give poison, a branch on poison and an access outside the alloca    *)
(*     are undefined behaviour).                                           *)
(*                                                                         *)
(* A source is a sequence of one-character strings.  "x" stands for any    *)
(* character that is not one of the eight instructions.                    *)
(* The data pointer is modelled as the byte offset from the start of the   *)
(* "memory" alloca; the handlers are read with the pointer-typed loads of  *)
(* the later revision of the file (src/unnamed/part_001), which emit the   *)
(* same arithmetic as src/src/BrainfuckCompiler.cpp.                       *)
(***************************************************************************)
EXTENDS Integers, Sequences, FiniteSets, TLC

(***************************************************************************)
(* Bounds of the model                                                     *)
(***************************************************************************)
MaxLen == 2          \* sources of the compile pipeline: every string up to this length
MaxBracketLen == 5   \* sources of the validator: every bracket string up to this length
MaxMem == 2          \* memory sizes 1..MaxMem
MaxInput == 2        \* bytes available on stdin before end of file
MaxCalls == 2        \* compile calls on one instance
MaxOutput == 13      \* bytes a run may write before the model stops following it
MaxBody == 256       \* loop body entries of a run before the model stops following it
MaxTwinLen == 2      \* sources of the two-instance model: every string up to this length
MaxHigh == 4         \* memory sizes of the wide-size model: up to MaxHigh * 2^31 + 2^31 - 1
MaxLoopLen == 6      \* sources of the loop model: every string of brackets and '+' up to this length

(***************************************************************************)
(* Program constants                                                       *)
(***************************************************************************)
Instructions == {">", "<", "+", "-", ".", ",", "[", "]"}
Alphabet == Instructions \cup {"x"}
BracketAlphabet == {"[", "]", "x"}

EOF == -1            \* what getchar returns at end of input
Poison == 256        \* the LLVM poison value, outside the byte range 0..255
HasNUW == TRUE       \* 4th argument of CreateAdd / CreateSub
HasNSW == TRUE       \* 5th argument of CreateAdd / CreateSub
PtrIncDelta == 1     \* GEP index of handleIncrementPtr
PtrDecDelta == -1    \* GEP index of handleDecrementPtr
RetValue == 0        \* operand of the ret of generateIR
DefaultMemorySize == 30000   \* default argument of the constructor, default of main
TwoTo30 == 1073741824        \* weight of bit 30; an i32 index has bits 0..31

Byte == 0..255
InputBytes == {0, 1, 2, 127, 128, 129, 255}

SeqsUpTo(S, n) == UNION {[1..k -> S] : k \in 0..n}

\* named programs of README.md / test.sh / spec section 8
CatSource == <<",", "[", ".", ",", "]">>
ClearSource == <<",", "[", "-", "]">>
ErrorSource == <<"+", "+", "+", "[", ">", "+", "+", "+", "<", "-", "]", "+", "+", "]">>
\* a nested loop, then an instruction, then a loop closed last
NestedSource == <<"[", "[", "]", "]", "+", "[", "-", "]", "x">>
Scenarios == {CatSource, ClearSource, ErrorSource, NestedSource,
              <<",", "+", ".">>, <<",", "-", "[", "]">>}

\* add.bf with 1 in the left cell and the right cell read by ','
TransferSource == <<"+", ">", ",", "[", "<", "+", ">", "-", "]", "<", ".">>

\* examples/hello.bf, examples/add.bf (each comment of add.bf is one "x") and
\* the one-line form of add.bf of test 2
HelloSource == <<
    "+", "+", "+", "+", "+", "+", "+", "+", "[", ">", "+", "+", "+", "+",
    "[", ">", "+", "+", ">", "+", "+", "+", ">", "+", "+", "+", ">", "+",
    "<", "<", "<", "<", "-", "]", ">", "+", ">", "+", ">", "-", ">", ">",
    "+", "[", "<", "]", "<", "-", "]", ">", ">", ".", ">", "-", "-", "-",
    ".", "+", "+", "+", "+", "+", "+", "+", ".", ".", "+", "+", "+", ".",
    ">", ">", ".", "<", "-", ".", "<", ".", "+", "+", "+", ".", "-", "-",
    "-", "-", "-", "-", ".", "-", "-", "-", "-", "-", "-", "-", "-", ".",
    ">", ">", "+", ".", ">", "+", "+", "." >>
AddSource == <<
    "+", "+", ">", "+", "+", "+", "+", "+", "[", "<", "+", ">", "-", "]",
    "<", "." >>
AddCommentedSource == <<
    "+", "+", "x", ">", "+", "+", "+", "+", "+", "x", "[", "x", "-", "x",
    "<", "+", "x", ">", "x", "]", "<", ".", "x" >>
ExampleSources == {HelloSource, AddSource, AddCommentedSource}
TransferSources == {TransferSource, AddSource, AddCommentedSource}
\* what putchar receives for "Hello World!" and a newline
HelloOutput == <<72, 101, 108, 108, 111, 32, 87, 111, 114, 108, 100, 33, 10>>

Sources == SeqsUpTo(Alphabet, MaxLen) \cup Scenarios
ReuseSources == {<<"+">>, <<"]">>, <<"[">>, <<"[", "]">>}
BracketSources == SeqsUpTo(BracketAlphabet, MaxBracketLen) \cup {ErrorSource}

\* sources translated by two compiler instances in turn
TwinAlphabet == {"<", "+", ".", ",", "[", "]", "x"}
TwinSources == SeqsUpTo(TwinAlphabet, MaxTwinLen)
               \cup {<<">">>, <<"-">>, <<"+", "[", "x", "-", "]">>,
                     <<"x", "[", "x", "[", "x", "]", "]">>}

\* sources and sizes of the wide-size model
SizeSources == {<<>>, <<"+">>, <<"[", "]">>}
SizeLows == {0, 1, 2, DefaultMemorySize, TwoTo30, TwoTo30 + (TwoTo30 - 1)}

\* sources of the loop model: every nesting up to depth MaxLoopLen \div 2,
\* with and without instructions between the brackets
LoopAlphabet == {"[", "]", "+"}
LoopSources == SeqsUpTo(LoopAlphabet, MaxLoopLen)

Pool(tag) == CASE tag = "validate" -> BracketSources
               [] tag = "loops" -> LoopSources
               [] tag = "examples" -> ExampleSources
               [] tag = "transfer" -> TransferSources
               [] tag = "twin" -> TwinSources
               [] tag = "size" -> SizeSources
               [] OTHER -> Sources

NoPos == -1
NoBlock == <<0, "none", 0>>

VARIABLES
    \* the caller: arguments of the current compile call, its result
    poolTag, source, enableJIT, callNo, result,
    \* fields of BrainfuckCompiler.  size_t m_memorySize is 64 bits wide and
    \* an integer of the model 32: m_memorySize holds bits 0..30 of the field
    \* and m_memorySizeHigh the bits from 31 up (the size is
    \* m_memorySizeHigh * 2^31 + m_memorySize)
    m_memorySize, m_memorySizeHigh, m_enableOptimization, m_enableDebugInfo, m_statistics,
    m_moduleValid, m_blocks, m_mainFunction, m_insert,
    m_loopStartBlocks, m_loopEndBlocks, m_currentIP,
    \* the functions of the module that createDebugInfo gave a !dbg attachment
    m_subprograms,
    \* position inside compile, locals of checkBrackets and generateIR
    pc, bracketCount, scanPos, genPos, steps, errs, pre,
    \* files written by emitObjectFile
    objFile, exeFile,
    \* the generated program while it runs
    rstate, rpc, memory, dataPtr, consumed, eof, output, bodyCount

callVars == <<poolTag, source, enableJIT, callNo, result>>
flagVars == <<m_memorySize, m_memorySizeHigh, m_enableOptimization, m_enableDebugInfo>>
moduleVars == <<m_moduleValid, m_blocks, m_mainFunction, m_insert,
                m_loopStartBlocks, m_loopEndBlocks, m_currentIP, m_subprograms>>
scanVars == <<bracketCount, scanPos>>
fileVars == <<objFile, exeFile>>
runVars == <<rstate, rpc, memory, dataPtr, consumed, eof, output, bodyCount>>
vars == <<callVars, flagVars, m_statistics, moduleVars, pc, scanVars, genPos,
          steps, errs, pre, fileVars, runVars>>

(***************************************************************************)
(* Helpers                                                                 *)
(***************************************************************************)
reportError(kind, pos) == errs' = Append(errs, [kind |-> kind, pos |-> pos])

\* what is kept of an earlier compiler instance: its source, what it
\* translated and what its generated program did
NoFirst == [made |-> FALSE, source |-> <<>>, validated |-> FALSE, errs |-> <<>>,
            stats |-> <<>>, blocks |-> <<>>, ran |-> "off", consumed |-> <<>>,
            eof |-> FALSE, output |-> <<>>]

\* the state of the instance when compile is entered
Snapshot == [blocks |-> m_blocks, loopStart |-> m_loopStartBlocks,
             loopEnd |-> m_loopEndBlocks, stats |-> m_statistics,
             moduleValid |-> m_moduleValid, errs |-> errs, first |-> pre.first]

IsInstruction(c) == c \in Instructions
\* the source with every non-instruction character deleted
Strip(s) == SelectSeq(s, IsInstruction)

Op(name, a, b) == [op |-> name, t1 |-> a, t2 |-> b]
Emit(o) == [m_blocks EXCEPT ![m_insert] = Append(@, o)]
Terminators == {"Br", "CondBr", "Ret"}

(***************************************************************************)
(* Construction                                                            *)
(***************************************************************************)
InitFields ==
    /\ source = <<>> /\ enableJIT = FALSE /\ callNo = 0 /\ result = "none"
    /\ m_enableOptimization = TRUE
    /\ m_enableDebugInfo = FALSE
    /\ m_statistics = <<>>
    /\ m_moduleValid = TRUE
    /\ m_blocks = <<>>
    /\ m_mainFunction = 0
    /\ m_subprograms = {}
    /\ m_insert = NoBlock
    /\ m_loopStartBlocks = <<>> /\ m_loopEndBlocks = <<>>
    /\ m_currentIP = 0
    /\ pc = "idle" /\ bracketCount = 0 /\ scanPos = 1 /\ genPos = 1
    /\ steps = <<>> /\ errs = <<>>
    /\ pre = [blocks |-> <<>>, loopStart |-> <<>>, loopEnd |-> <<>>,
              stats |-> <<>>, moduleValid |-> TRUE, errs |-> <<>>,
              first |-> NoFirst]
    /\ objFile = FALSE /\ exeFile = FALSE
    /\ rstate = "off" /\ rpc = <<NoBlock, 0>> /\ memory = <<>> /\ dataPtr = 0
    /\ consumed = <<>> /\ eof = FALSE /\ output = <<>> /\ bodyCount = 0

InitCommon ==
    /\ InitFields
    /\ m_memorySize \in 1..MaxMem
    /\ m_memorySizeHigh = 0

Init == InitCommon /\ poolTag = "compile"

InitValidate == InitCommon /\ poolTag = "validate"

\* main with no -m option: the default memory size
InitExamples ==
    /\ InitFields
    /\ m_memorySize = DefaultMemorySize
    /\ m_memorySizeHigh = 0
    /\ poolTag = "examples"

\* memory sizes with a cell to the right of the initial one
InitTransfer ==
    /\ InitFields
    /\ m_memorySize \in 3..(MaxMem + 2)
    /\ m_memorySizeHigh = 0
    /\ poolTag = "transfer"

InitTwin == InitCommon /\ poolTag = "twin"

InitLoops == InitCommon /\ poolTag = "loops"

\* generateIR is a private method that compile calls after checkBrackets
\* has accepted the source.  Here it is applied to any source, balanced or
\* not: compile is past its bracket check, whatever the brackets are.  This
\* is the situation the empty-stack branch of handleLoopEnd is written for.
InitTranslate ==
    /\ poolTag = "loops"
    /\ source \in LoopSources /\ enableJIT = FALSE /\ callNo = 1 /\ result = "none"
    /\ m_memorySize \in 1..MaxMem
    /\ m_memorySizeHigh = 0
    /\ m_enableOptimization = TRUE
    /\ m_enableDebugInfo = FALSE
    /\ m_statistics = <<>>
    /\ m_moduleValid = TRUE
    /\ m_blocks = <<>>
    /\ m_mainFunction = 0
    /\ m_subprograms = {}
    /\ m_insert = NoBlock
    /\ m_loopStartBlocks = <<>> /\ m_loopEndBlocks = <<>>
    /\ m_currentIP = 0
    /\ pc = "clearStatistics" /\ bracketCount = 0 /\ scanPos = 1 /\ genPos = 1
    /\ steps = <<"checkBrackets">> /\ errs = <<>>
    /\ pre = [blocks |-> <<>>, loopStart |-> <<>>, loopEnd |-> <<>>,
              stats |-> <<>>, moduleValid |-> TRUE, errs |-> <<>>,
              first |-> NoFirst]
    /\ objFile = FALSE /\ exeFile = FALSE
    /\ rstate = "off" /\ rpc = <<NoBlock, 0>> /\ memory = <<>> /\ dataPtr = 0
    /\ consumed = <<>> /\ eof = FALSE /\ output = <<>> /\ bodyCount = 0

\* any size_t of the wide-size model except 0
InitSize ==
    /\ InitFields
    /\ m_memorySizeHigh \in 0..MaxHigh
    /\ m_memorySize \in SizeLows
    /\ ~(m_memorySizeHigh = 0 /\ m_memorySize = 0)
    /\ poolTag = "size"

(***************************************************************************)
(* The setters of the header, called by main before compile                *)
(***************************************************************************)
setOptimization ==
    /\ pc = "idle" /\ callNo = 0
    /\ \E enable \in BOOLEAN :
          /\ enable # m_enableOptimization
          /\ m_enableOptimization' = enable
    /\ UNCHANGED <<callVars, m_memorySize, m_memorySizeHigh, m_enableDebugInfo, m_statistics,
                   moduleVars, pc, scanVars, genPos, steps, errs, pre,
                   fileVars, runVars>>

setDebugInfo ==
    /\ pc = "idle" /\ callNo = 0
    /\ \E enable \in BOOLEAN :
          /\ enable # m_enableDebugInfo
          /\ m_enableDebugInfo' = enable
    /\ UNCHANGED <<callVars, m_memorySize, m_memorySizeHigh, m_enableOptimization, m_statistics,
                   moduleVars, pc, scanVars, genPos, steps, errs, pre,
                   fileVars, runVars>>

(***************************************************************************)
(* compile: entry, checkBrackets                                           *)
(***************************************************************************)
\* the sources a call of compile may be given: an instance constructed
\* after another one is given the source of the first one, as it is or with
\* its non-instruction characters deleted
Choices ==
    IF pre.first.made THEN {pre.first.source, Strip(pre.first.source)}
    ELSE Pool(poolTag)

\* compile with m_statistics.clear() moved before the bracket check
compile_clearsFirst ==
    /\ pc \in {"idle", "done"}
    /\ callNo < MaxCalls
    /\ rstate \in {"off", "returned", "crashed"}
    /\ \E src \in Choices, jit \in BOOLEAN :
          /\ callNo > 0 => (src \in ReuseSources /\ source \in ReuseSources)
          /\ source' = src
          /\ enableJIT' = jit
    /\ callNo' = callNo + 1
    /\ result' = "none"
    /\ pc' = "checkBrackets"
    /\ bracketCount' = 0
    /\ scanPos' = 1
    /\ steps' = <<"checkBrackets">>
    /\ pre' = Snapshot
    /\ m_statistics' = <<>>
    /\ UNCHANGED <<poolTag, flagVars, moduleVars, genPos, errs, fileVars, runVars>>

\* A call of compile(source, outputFile, enableJIT).  A first call takes any
\* source of the pool; a later call on the same instance is modelled for
\* the sources of ReuseSources following a call with such a source.
compile ==
    /\ pc \in {"idle", "done"}
    /\ callNo < MaxCalls
    /\ rstate \in {"off", "returned", "crashed"}
    /\ \E src \in Choices, jit \in BOOLEAN :
          /\ callNo > 0 => (src \in ReuseSources /\ source \in ReuseSources)
          /\ source' = src
          /\ enableJIT' = jit
    /\ callNo' = callNo + 1
    /\ result' = "none"
    /\ pc' = "checkBrackets"
    /\ bracketCount' = 0
    /\ scanPos' = 1
    /\ steps' = <<"checkBrackets">>
    /\ pre' = Snapshot
    /\ UNCHANGED <<poolTag, flagVars, m_statistics, moduleVars, genPos, errs,
                   fileVars, runVars>>

\* checkBracketsScan without the early return on a negative count
checkBracketsScan_noNegativeTest ==
    /\ pc = "checkBrackets"
    /\ scanPos <= Len(source)
    /\ LET c == source[scanPos] IN
          bracketCount' = IF c = "[" THEN bracketCount + 1
                          ELSE IF c = "]" THEN bracketCount - 1
                          ELSE bracketCount
    /\ scanPos' = scanPos + 1
    /\ UNCHANGED <<pc, result, errs>>
    /\ UNCHANGED <<poolTag, source, enableJIT, callNo, flagVars, m_statistics,
                   moduleVars, genPos, steps, pre, fileVars, runVars>>

\* one iteration of the range-for of checkBrackets
checkBracketsScan ==
    /\ pc = "checkBrackets"
    /\ scanPos <= Len(source)
    /\ LET c == source[scanPos] IN
          IF c = "["
          THEN /\ bracketCount' = bracketCount + 1
               /\ scanPos' = scanPos + 1
               /\ UNCHANGED <<pc, result, errs>>
          ELSE IF c = "]"
          THEN /\ bracketCount' = bracketCount - 1
               /\ IF bracketCount - 1 < 0
                  THEN /\ reportError("ExtraRightBracket", NoPos)
                       /\ result' = FALSE
                       /\ pc' = "done"
                       /\ UNCHANGED scanPos
                  ELSE /\ scanPos' = scanPos + 1
                       /\ UNCHANGED <<pc, result, errs>>
          ELSE /\ scanPos' = scanPos + 1
               /\ UNCHANGED <<bracketCount, pc, result, errs>>
    /\ UNCHANGED <<poolTag, source, enableJIT, callNo, flagVars, m_statistics,
                   moduleVars, genPos, steps, pre, fileVars, runVars>>

\* checkBracketsEnd without the final test of the count
checkBracketsEnd_noFinalTest ==
    /\ pc = "checkBrackets"
    /\ scanPos > Len(source)
    /\ pc' = "clearStatistics"
    /\ UNCHANGED <<result, errs>>
    /\ UNCHANGED <<poolTag, source, enableJIT, callNo, flagVars, m_statistics,
                   moduleVars, scanVars, genPos, steps, pre, fileVars, runVars>>

\* after the loop of checkBrackets: the final test, and compile's test of the result
checkBracketsEnd ==
    /\ pc = "checkBrackets"
    /\ scanPos > Len(source)
    /\ IF bracketCount # 0
       THEN /\ reportError("BracketMismatch", NoPos)
            /\ result' = FALSE
            /\ pc' = "done"
       ELSE /\ pc' = "clearStatistics"
            /\ UNCHANGED <<result, errs>>
    /\ UNCHANGED <<poolTag, source, enableJIT, callNo, flagVars, m_statistics,
                   moduleVars, scanVars, genPos, steps, pre, fileVars, runVars>>

(***************************************************************************)
(* compile: statistics reset, main function, memory, runtime functions     *)
(***************************************************************************)
\* clearStatistics without m_statistics.clear()
clearStatistics_keeps ==
    /\ pc = "clearStatistics"
    /\ steps' = Append(steps, "clearStatistics")
    /\ pc' = "createMainFunction"
    /\ UNCHANGED <<callVars, flagVars, m_statistics, moduleVars, scanVars, genPos,
                   errs, pre, fileVars, runVars>>

clearStatistics ==
    /\ pc = "clearStatistics"
    /\ m_statistics' = <<>>
    /\ steps' = Append(steps, "clearStatistics")
    /\ pc' = "createMainFunction"
    /\ UNCHANGED <<callVars, flagVars, moduleVars, scanVars, genPos, errs, pre,
                   fileVars, runVars>>

EntryBlock(f) == <<f, "entry", 0>>

\* creates function "main" and its entry block, sets the insert point
createMainFunction ==
    /\ pc = "createMainFunction"
    /\ m_mainFunction' = callNo
    /\ m_blocks' = m_blocks @@ (EntryBlock(callNo) :> <<>>)
    /\ m_insert' = EntryBlock(callNo)
    /\ steps' = Append(steps, "createMainFunction")
    /\ pc' = "allocateMemory"
    /\ UNCHANGED <<callVars, flagVars, m_statistics, m_moduleValid,
                   m_loopStartBlocks, m_loopEndBlocks, m_currentIP,
                   m_subprograms, scanVars, genPos, errs, pre, fileVars,
                   runVars>>

\* index of the initial data pointer: getelementptr [N x i8], 0, N / 2.
\* N / 2 is made an i32 constant, which keeps its low 32 bits, and
\* getelementptr reads an index as a signed number.  With the size
\* high * 2^31 + low, bits 30 and 31 of N / 2 are high % 4.
InitialIndex(high, low) ==
    LET top == high % 4
        signedTop == IF top >= 2 THEN top - 4 ELSE top
    IN signedTop * TwoTo30 + low \div 2

\* alloca of the array, memset to 0, alloca of dataptr, store of the initial
\* pointer.  m_module.get() is dereferenced: with a moved-from module the
\* call dereferences a null pointer.
allocateMemory ==
    /\ pc = "allocateMemory"
    /\ steps' = Append(steps, "allocateMemory")
    /\ IF m_moduleValid
       THEN /\ m_blocks' = Emit(Op("Alloc", <<m_memorySize, "memory",
                                            InitialIndex(m_memorySizeHigh, m_memorySize)>>,
                                      NoBlock))
            /\ pc' = "setupRuntimeFunctions"
       ELSE /\ pc' = "crashed"
            /\ UNCHANGED m_blocks
    /\ UNCHANGED <<callVars, flagVars, m_statistics, m_moduleValid, m_mainFunction, m_subprograms,
                   m_insert, m_loopStartBlocks, m_loopEndBlocks, m_currentIP,
                   scanVars, genPos, errs, pre, fileVars, runVars>>

\* declarations of putchar and getchar
setupRuntimeFunctions ==
    /\ pc = "setupRuntimeFunctions"
    /\ steps' = Append(steps, "setupRuntimeFunctions")
    /\ pc' = IF m_enableDebugInfo THEN "createDebugInfo" ELSE "generateIR"
    /\ UNCHANGED <<callVars, flagVars, m_statistics, moduleVars, scanVars,
                   genPos, errs, pre, fileVars, runVars>>

\* DIBuilder::createFunction is called without SPFlagDefinition, so the
\* subprogram it returns is a declaration node that is not distinct;
\* setSubprogram attaches it to main
createDebugInfo ==
    /\ pc = "createDebugInfo"
    /\ m_subprograms' = m_subprograms \cup {m_mainFunction}
    /\ steps' = Append(steps, "createDebugInfo")
    /\ pc' = "generateIR"
    /\ UNCHANGED <<callVars, flagVars, m_statistics, m_moduleValid, m_blocks,
                   m_mainFunction, m_insert, m_loopStartBlocks, m_loopEndBlocks,
                   m_currentIP, scanVars, genPos, errs, pre, fileVars, runVars>>

(***************************************************************************)
(* generateIR and the eight handlers.  A handler is the effect of one call *)
(* on the module, the insert point, the loop stacks and the error stream.  *)
(***************************************************************************)
handleIncrementPtr ==
    /\ m_blocks' = Emit(Op("IncPtr", NoBlock, NoBlock))
    /\ UNCHANGED <<m_insert, m_loopStartBlocks, m_loopEndBlocks, errs>>

handleDecrementPtr ==
    /\ m_blocks' = Emit(Op("DecPtr", NoBlock, NoBlock))
    /\ UNCHANGED <<m_insert, m_loopStartBlocks, m_loopEndBlocks, errs>>

\* handleIncrementByte emitting the sub of handleDecrementByte
handleIncrementByte_emitsDecrement ==
    /\ m_blocks' = Emit(Op("DecByte", NoBlock, NoBlock))
    /\ UNCHANGED <<m_insert, m_loopStartBlocks, m_loopEndBlocks, errs>>

handleIncrementByte ==
    /\ m_blocks' = Emit(Op("IncByte", NoBlock, NoBlock))
    /\ UNCHANGED <<m_insert, m_loopStartBlocks, m_loopEndBlocks, errs>>

handleDecrementByte ==
    /\ m_blocks' = Emit(Op("DecByte", NoBlock, NoBlock))
    /\ UNCHANGED <<m_insert, m_loopStartBlocks, m_loopEndBlocks, errs>>

handleOutput ==
    /\ m_blocks' = Emit(Op("Output", NoBlock, NoBlock))
    /\ UNCHANGED <<m_insert, m_loopStartBlocks, m_loopEndBlocks, errs>>

handleInput ==
    /\ m_blocks' = Emit(Op("Input", NoBlock, NoBlock))
    /\ UNCHANGED <<m_insert, m_loopStartBlocks, m_loopEndBlocks, errs>>

\* handleLoopStart without the br to the header
handleLoopStart_noBranch(ip) ==
    LET loopHeader == <<m_mainFunction, "loop_header", ip>>
        loopBody == <<m_mainFunction, "loop_body", ip>>
        loopEnd == <<m_mainFunction, "loop_end", ip>>
    IN /\ m_blocks' = m_blocks
                        @@ (loopHeader :> <<Op("CondBr", loopEnd, loopBody)>>)
                        @@ (loopBody :> <<>>)
                        @@ (loopEnd :> <<>>)
       /\ m_insert' = loopBody
       /\ m_loopStartBlocks' = Append(m_loopStartBlocks, loopHeader)
       /\ m_loopEndBlocks' = Append(m_loopEndBlocks, loopEnd)
       /\ UNCHANGED errs

\* handleLoopStart without the two pushes
handleLoopStart_noPush(ip) ==
    LET loopHeader == <<m_mainFunction, "loop_header", ip>>
        loopBody == <<m_mainFunction, "loop_body", ip>>
        loopEnd == <<m_mainFunction, "loop_end", ip>>
    IN /\ m_blocks' = Emit(Op("Br", loopHeader, NoBlock))
                        @@ (loopHeader :> <<Op("CondBr", loopEnd, loopBody)>>)
                        @@ (loopBody :> <<>>)
                        @@ (loopEnd :> <<>>)
       /\ m_insert' = loopBody
       /\ UNCHANGED <<m_loopStartBlocks, m_loopEndBlocks, errs>>

\* three new blocks; br to the header; in the header load, icmp eq 0 and
\* condbr (to loopEnd when the cell is 0, to loopBody otherwise); the insert
\* point moves to the body; header and end are pushed
handleLoopStart(ip) ==
    LET loopHeader == <<m_mainFunction, "loop_header", ip>>
        loopBody == <<m_mainFunction, "loop_body", ip>>
        loopEnd == <<m_mainFunction, "loop_end", ip>>
    IN /\ m_blocks' = Emit(Op("Br", loopHeader, NoBlock))
                        @@ (loopHeader :> <<Op("CondBr", loopEnd, loopBody)>>)
                        @@ (loopBody :> <<>>)
                        @@ (loopEnd :> <<>>)
       /\ m_insert' = loopBody
       /\ m_loopStartBlocks' = Append(m_loopStartBlocks, loopHeader)
       /\ m_loopEndBlocks' = Append(m_loopEndBlocks, loopEnd)
       /\ UNCHANGED errs

\* handleLoopEnd taking the oldest entry of each stack
handleLoopEnd_fifo(ip) ==
    IF m_loopStartBlocks = <<>> \/ m_loopEndBlocks = <<>>
    THEN /\ reportError("ExtraRightBracket", ip)
         /\ UNCHANGED <<m_blocks, m_insert, m_loopStartBlocks, m_loopEndBlocks>>
    ELSE LET loopHeader == Head(m_loopStartBlocks)
             loopEnd == Head(m_loopEndBlocks)
         IN /\ m_loopStartBlocks' = Tail(m_loopStartBlocks)
            /\ m_loopEndBlocks' = Tail(m_loopEndBlocks)
            /\ m_blocks' = Emit(Op("Br", loopHeader, NoBlock))
            /\ m_insert' = loopEnd
            /\ UNCHANGED errs

\* handleLoopEnd without m_loopEndBlocks.pop()
handleLoopEnd_popsOneStack(ip) ==
    IF m_loopStartBlocks = <<>> \/ m_loopEndBlocks = <<>>
    THEN /\ reportError("ExtraRightBracket", ip)
         /\ UNCHANGED <<m_blocks, m_insert, m_loopStartBlocks, m_loopEndBlocks>>
    ELSE LET loopHeader == m_loopStartBlocks[Len(m_loopStartBlocks)]
             loopEnd == m_loopEndBlocks[Len(m_loopEndBlocks)]
         IN /\ m_loopStartBlocks' = SubSeq(m_loopStartBlocks, 1, Len(m_loopStartBlocks) - 1)
            /\ m_blocks' = Emit(Op("Br", loopHeader, NoBlock))
            /\ m_insert' = loopEnd
            /\ UNCHANGED <<m_loopEndBlocks, errs>>

\* handleLoopEnd without the two pops
handleLoopEnd_noPop(ip) ==
    IF m_loopStartBlocks = <<>> \/ m_loopEndBlocks = <<>>
    THEN /\ reportError("ExtraRightBracket", ip)
         /\ UNCHANGED <<m_blocks, m_insert, m_loopStartBlocks, m_loopEndBlocks>>
    ELSE LET loopHeader == m_loopStartBlocks[Len(m_loopStartBlocks)]
             loopEnd == m_loopEndBlocks[Len(m_loopEndBlocks)]
         IN /\ m_blocks' = Emit(Op("Br", loopHeader, NoBlock))
            /\ m_insert' = loopEnd
            /\ UNCHANGED <<m_loopStartBlocks, m_loopEndBlocks, errs>>

\* with an empty stack: report and return; otherwise pop both stacks, br
\* back to the header, move the insert point to the end block
handleLoopEnd(ip) ==
    IF m_loopStartBlocks = <<>> \/ m_loopEndBlocks = <<>>
    THEN /\ reportError("ExtraRightBracket", ip)
         /\ UNCHANGED <<m_blocks, m_insert, m_loopStartBlocks, m_loopEndBlocks>>
    ELSE LET loopHeader == m_loopStartBlocks[Len(m_loopStartBlocks)]
             loopEnd == m_loopEndBlocks[Len(m_loopEndBlocks)]
         IN /\ m_loopStartBlocks' = SubSeq(m_loopStartBlocks, 1, Len(m_loopStartBlocks) - 1)
            /\ m_loopEndBlocks' = SubSeq(m_loopEndBlocks, 1, Len(m_loopEndBlocks) - 1)
            /\ m_blocks' = Emit(Op("Br", loopHeader, NoBlock))
            /\ m_insert' = loopEnd
            /\ UNCHANGED errs

\* m_statistics[c]++ on a std::map: a missing key is created with value 0
Count(stats, c) == IF c \in DOMAIN stats THEN stats[c] ELSE 0
Increment(stats, c) ==
    [k \in DOMAIN stats \cup {c} |-> IF k = c THEN Count(stats, c) + 1 ELSE stats[k]]

generateIREnter ==
    /\ pc = "generateIR"
    /\ m_currentIP' = 0
    /\ genPos' = 1
    /\ steps' = Append(steps, "generateIR")
    /\ pc' = "generateIRLoop"
    /\ UNCHANGED <<callVars, flagVars, m_statistics, m_moduleValid, m_blocks,
                   m_mainFunction, m_subprograms, m_insert, m_loopStartBlocks,
                   m_loopEndBlocks,
                   scanVars, errs, pre, fileVars, runVars>>

\* generateIRStep counting the character before the skip test
generateIRStep_countsAll ==
    /\ pc = "generateIRLoop"
    /\ genPos <= Len(source)
    /\ LET c == source[genPos]
           i == genPos - 1
       IN /\ m_currentIP' = i
          /\ m_statistics' = Increment(m_statistics, c)
          /\ CASE c = ">" -> handleIncrementPtr
               [] c = "<" -> handleDecrementPtr
               [] c = "+" -> handleIncrementByte
               [] c = "-" -> handleDecrementByte
               [] c = "." -> handleOutput
               [] c = "," -> handleInput
               [] c = "[" -> handleLoopStart(i)
               [] c = "]" -> handleLoopEnd(i)
               [] OTHER -> UNCHANGED <<m_blocks, m_insert, m_loopStartBlocks,
                                       m_loopEndBlocks, errs>>
    /\ genPos' = genPos + 1
    /\ UNCHANGED <<callVars, flagVars, m_moduleValid, m_mainFunction,
                   m_subprograms, pc,
                   scanVars, steps, pre, fileVars, runVars>>

\* one iteration of the for loop; genPos is i + 1
generateIRStep ==
    /\ pc = "generateIRLoop"
    /\ genPos <= Len(source)
    /\ LET c == source[genPos]
           i == genPos - 1
       IN /\ m_currentIP' = i
          /\ IF c \notin Instructions
             THEN UNCHANGED <<m_statistics, m_blocks, m_insert,
                              m_loopStartBlocks, m_loopEndBlocks, errs>>
             ELSE /\ m_statistics' = Increment(m_statistics, c)
                  /\ CASE c = ">" -> handleIncrementPtr
                       [] c = "<" -> handleDecrementPtr
                       [] c = "+" -> handleIncrementByte
                       [] c = "-" -> handleDecrementByte
                       [] c = "." -> handleOutput
                       [] c = "," -> handleInput
                       [] c = "[" -> handleLoopStart(i)
                       [] c = "]" -> handleLoopEnd(i)
    /\ genPos' = genPos + 1
    /\ UNCHANGED <<callVars, flagVars, m_moduleValid, m_mainFunction,
                   m_subprograms, pc,
                   scanVars, steps, pre, fileVars, runVars>>

\* generateIRRet putting the ret in the entry block
generateIRRet_inEntry ==
    /\ pc = "generateIRLoop"
    /\ genPos > Len(source)
    /\ m_blocks' = [m_blocks EXCEPT ![EntryBlock(m_mainFunction)] =
                        Append(@, Op("Ret", RetValue, NoBlock))]
    /\ pc' = "verifyModule"
    /\ UNCHANGED <<callVars, flagVars, m_statistics, m_moduleValid,
                   m_mainFunction, m_subprograms, m_insert, m_loopStartBlocks,
                   m_loopEndBlocks,
                   m_currentIP, scanVars, genPos, steps, errs, pre, fileVars,
                   runVars>>

\* after the loop: ret i32 0 at the insert point
generateIRRet ==
    /\ pc = "generateIRLoop"
    /\ genPos > Len(source)
    /\ m_blocks' = Emit(Op("Ret", RetValue, NoBlock))
    /\ pc' = "verifyModule"
    /\ UNCHANGED <<callVars, flagVars, m_statistics, m_moduleValid,
                   m_mainFunction, m_subprograms, m_insert, m_loopStartBlocks,
                   m_loopEndBlocks,
                   m_currentIP, scanVars, genPos, steps, errs, pre, fileVars,
                   runVars>>

(***************************************************************************)
(* compile: verification, optimization, backend                            *)
(***************************************************************************)
\* what the IR verifier requires of a block: it ends with its only terminator
BlockOK(b) ==
    /\ Len(b) >= 1
    /\ b[Len(b)].op \in Terminators
    /\ \A k \in 1..(Len(b) - 1) : b[k].op \notin Terminators

\* verifyModule returns true when the module is broken: a block is not
\* well formed, or a function with a body has a !dbg attachment that is not
\* distinct (verifyModule is called without a BrokenDebugInfo argument, so
\* a debug-info failure counts as an error)
ModuleBroken ==
    \/ \E id \in DOMAIN m_blocks : ~BlockOK(m_blocks[id])
    \/ \E id \in DOMAIN m_blocks : id[1] \in m_subprograms

\* verifyModule going on after it has reported the invalid IR
verifyModule_continues ==
    /\ pc = "verifyModule"
    /\ steps' = Append(steps, "verifyModule")
    /\ IF ModuleBroken
       THEN /\ reportError("InvalidIR", NoPos)
            /\ pc' = IF m_enableOptimization THEN "optimizeModule" ELSE "backend"
            /\ UNCHANGED result
       ELSE /\ pc' = IF m_enableOptimization THEN "optimizeModule" ELSE "backend"
            /\ UNCHANGED <<result, errs>>
    /\ UNCHANGED <<poolTag, source, enableJIT, callNo, flagVars, m_statistics,
                   moduleVars, scanVars, genPos, pre, fileVars, runVars>>

verifyModule ==
    /\ pc = "verifyModule"
    /\ steps' = Append(steps, "verifyModule")
    /\ IF ModuleBroken
       THEN /\ reportError("InvalidIR", NoPos)
            /\ result' = FALSE
            /\ pc' = "done"
       ELSE /\ pc' = IF m_enableOptimization THEN "optimizeModule" ELSE "backend"
            /\ UNCHANGED <<result, errs>>
    /\ UNCHANGED <<poolTag, source, enableJIT, callNo, flagVars, m_statistics,
                   moduleVars, scanVars, genPos, pre, fileVars, runVars>>

optimizeModule ==
    /\ pc = "optimizeModule"
    /\ steps' = Append(steps, "optimizeModule")
    /\ pc' = "backend"
    /\ UNCHANGED <<callVars, flagVars, m_statistics, moduleVars, scanVars,
                   genPos, errs, pre, fileVars, runVars>>

\* the state of the generated program when main is entered
StartProgram ==
    /\ rstate' = "running"
    /\ rpc' = <<EntryBlock(m_mainFunction), 1>>
    /\ memory' = <<>>
    /\ dataPtr' = 0
    /\ consumed' = <<>>
    /\ eof' = FALSE
    /\ output' = <<>>
    /\ bodyCount' = 0

\* EngineBuilder(std::move(m_module)).create(): the module is moved out of
\* the compiler whether or not the engine is created; without an engine the
\* error is reported and executeJIT returns; compile then returns true
executeJIT ==
    /\ pc = "backend"
    /\ enableJIT
    /\ steps' = Append(steps, "executeJIT")
    /\ m_moduleValid' = FALSE
    /\ \E created \in BOOLEAN :
          IF created
          THEN /\ StartProgram
               /\ pc' = "runFunction"
               /\ UNCHANGED <<result, errs>>
          ELSE /\ reportError("JITEngineFailed", NoPos)
               /\ result' = TRUE
               /\ pc' = "done"
               /\ UNCHANGED runVars
    /\ UNCHANGED <<poolTag, source, enableJIT, callNo, flagVars, m_statistics,
                   m_blocks, m_mainFunction, m_subprograms, m_insert, m_loopStartBlocks,
                   m_loopEndBlocks, m_currentIP, scanVars, genPos, pre, fileVars>>

\* runFunction has returned (or the process died in the generated code)
executeJITEnd ==
    /\ pc = "runFunction"
    /\ rstate \in {"returned", "crashed"}
    /\ IF rstate = "returned"
       THEN /\ result' = TRUE
            /\ pc' = "done"
       ELSE /\ pc' = "crashed"
            /\ UNCHANGED result
    /\ UNCHANGED <<poolTag, source, enableJIT, callNo, flagVars, m_statistics,
                   moduleVars, scanVars, genPos, steps, errs, pre, fileVars,
                   runVars>>

\* the outcomes of the environment: target lookup, opening <output>.o,
\* addPassesToEmitFile, the clang link command
EmitOutcomes == {"ok", "noTarget", "openFail", "noEmit", "linkFail"}

\* every failure is reported and emitObjectFile returns void; compile
\* returns true after it
emitObjectFile ==
    /\ pc = "backend"
    /\ ~enableJIT
    /\ steps' = Append(steps, "emitObjectFile")
    /\ \E outcome \in EmitOutcomes :
          CASE outcome = "noTarget" ->
                 /\ reportError("TargetLookupFailed", NoPos)
                 /\ UNCHANGED fileVars
            [] outcome = "openFail" ->
                 /\ reportError("CannotOpenOutput", NoPos)
                 /\ UNCHANGED fileVars
            [] outcome = "noEmit" ->
                 /\ reportError("EmitUnsupported", NoPos)
                 /\ objFile' = TRUE
                 /\ UNCHANGED exeFile
            [] outcome = "linkFail" ->
                 /\ reportError("LinkFailed", NoPos)
                 /\ objFile' = TRUE
                 /\ UNCHANGED exeFile
            [] outcome = "ok" ->
                 /\ objFile' = FALSE
                 /\ exeFile' = TRUE
                 /\ UNCHANGED errs
    /\ result' = TRUE
    /\ pc' = "done"
    /\ UNCHANGED <<poolTag, source, enableJIT, callNo, flagVars, m_statistics,
                   moduleVars, scanVars, genPos, pre, runVars>>

\* exit status of main once compile has returned
MainExit == IF result = FALSE THEN 1 ELSE 0

\* the user runs the executable produced by a first compile
runExecutable ==
    /\ pc = "done"
    /\ result = TRUE
    /\ ~enableJIT
    /\ exeFile
    /\ errs = pre.errs
    /\ callNo = 1
    /\ rstate = "off"
    /\ StartProgram
    /\ UNCHANGED <<callVars, flagVars, m_statistics, moduleVars, pc, scanVars,
                   genPos, steps, errs, pre, fileVars>>

\* BrainfuckCompiler(memorySize): another instance with the same memory
\* size is constructed once the first one has finished its one compile
\* call; what the first one did is kept for comparison, the files it wrote
\* stay
construct ==
    /\ pc \in {"done", "crashed"}
    /\ callNo = 1
    /\ rstate \in {"off", "returned", "crashed"}
    /\ ~pre.first.made
    /\ pre' = [blocks |-> <<>>, loopStart |-> <<>>, loopEnd |-> <<>>,
               stats |-> <<>>, moduleValid |-> TRUE, errs |-> <<>>,
               first |-> [made |-> TRUE, source |-> source,
                          validated |-> (Len(steps) >= 2), errs |-> errs,
                          stats |-> m_statistics, blocks |-> m_blocks,
                          ran |-> rstate, consumed |-> consumed, eof |-> eof,
                          output |-> output]]
    /\ source' = <<>> /\ enableJIT' = FALSE /\ callNo' = 0 /\ result' = "none"
    /\ m_enableOptimization' = TRUE
    /\ m_enableDebugInfo' = FALSE
    /\ m_statistics' = <<>>
    /\ m_moduleValid' = TRUE
    /\ m_blocks' = <<>>
    /\ m_mainFunction' = 0
    /\ m_subprograms' = {}
    /\ m_insert' = NoBlock
    /\ m_loopStartBlocks' = <<>> /\ m_loopEndBlocks' = <<>>
    /\ m_currentIP' = 0
    /\ pc' = "idle" /\ bracketCount' = 0 /\ scanPos' = 1 /\ genPos' = 1
    /\ steps' = <<>> /\ errs' = <<>>
    /\ rstate' = "off" /\ rpc' = <<NoBlock, 0>> /\ memory' = <<>> /\ dataPtr' = 0
    /\ consumed' = <<>> /\ eof' = FALSE /\ output' = <<>> /\ bodyCount' = 0
    /\ UNCHANGED <<poolTag, m_memorySize, m_memorySizeHigh, fileVars>>

(***************************************************************************)
(* The generated program.  rpc is <<block, index>>; one step executes the  *)
(* instructions that one handler emitted.                                  *)
(***************************************************************************)
Running == rstate = "running"
CurOp == m_blocks[rpc[1]][rpc[2]]
Advance == rpc' = <<rpc[1], rpc[2] + 1>>

\* the data pointer addresses a byte of the "memory" alloca
InBounds == dataPtr \in 0..(m_memorySize - 1)

Signed8(v) == IF v >= 128 THEN v - 256 ELSE v

\* add nuw nsw i8 v, 1
AddI8(v) ==
    IF v = Poison THEN Poison
    ELSE IF HasNUW /\ v + 1 > 255 THEN Poison
    ELSE IF HasNSW /\ Signed8(v) + 1 > 127 THEN Poison
    ELSE (v + 1) % 256

\* sub nuw nsw i8 v, 1
SubI8(v) ==
    IF v = Poison THEN Poison
    ELSE IF HasNUW /\ v - 1 < 0 THEN Poison
    ELSE IF HasNSW /\ Signed8(v) - 1 < -128 THEN Poison
    ELSE (v - 1) % 256

\* a trunc that stores 0 at end of input
Trunc8_eofAsZero(r) == IF r = EOF THEN 0 ELSE r % 256

\* trunc i32 to i8
Trunc8(r) == r % 256

\* load i8 through the data pointer; outside the array the loaded byte is
\* not defined
LoadCell == IF InBounds THEN memory[dataPtr] ELSE Poison

\* store i8 through the data pointer; outside the array this outcome is the
\* one where the store hits no byte of the array (see execOutOfBounds)
StoreCell(v) == IF InBounds THEN [memory EXCEPT ![dataPtr] = v] ELSE memory

\* memset of the array to 0 and store of &memory[N / 2] to dataptr
execAlloc ==
    /\ Running /\ CurOp.op = "Alloc"
    /\ memory' = [k \in 0..(CurOp.t1[1] - 1) |-> 0]
    /\ dataPtr' = CurOp.t1[3]
    /\ Advance
    /\ UNCHANGED <<callVars, flagVars, m_statistics, moduleVars, pc, scanVars,
                   genPos, steps, errs, pre, fileVars, rstate, consumed, eof,
                   output, bodyCount>>

\* '>': load ptr, getelementptr i8, ptr, 1, store
execIncPtr ==
    /\ Running /\ CurOp.op = "IncPtr"
    /\ dataPtr' = dataPtr + PtrIncDelta
    /\ Advance
    /\ UNCHANGED <<callVars, flagVars, m_statistics, moduleVars, pc, scanVars,
                   genPos, steps, errs, pre, fileVars, rstate, memory, consumed,
                   eof, output, bodyCount>>

\* '<': load ptr, getelementptr i8, ptr, -1, store
execDecPtr ==
    /\ Running /\ CurOp.op = "DecPtr"
    /\ dataPtr' = dataPtr + PtrDecDelta
    /\ Advance
    /\ UNCHANGED <<callVars, flagVars, m_statistics, moduleVars, pc, scanVars,
                   genPos, steps, errs, pre, fileVars, rstate, memory, consumed,
                   eof, output, bodyCount>>

\* '+': load, add nuw nsw 1, store
execIncByte ==
    /\ Running /\ CurOp.op = "IncByte"
    /\ memory' = StoreCell(AddI8(LoadCell))
    /\ Advance
    /\ UNCHANGED <<callVars, flagVars, m_statistics, moduleVars, pc, scanVars,
                   genPos, steps, errs, pre, fileVars, rstate, dataPtr, consumed,
                   eof, output, bodyCount>>

\* '-': load, sub nuw nsw 1, store
execDecByte ==
    /\ Running /\ CurOp.op = "DecByte"
    /\ memory' = StoreCell(SubI8(LoadCell))
    /\ Advance
    /\ UNCHANGED <<callVars, flagVars, m_statistics, moduleVars, pc, scanVars,
                   genPos, steps, errs, pre, fileVars, rstate, dataPtr, consumed,
                   eof, output, bodyCount>>

\* '.': load, zext to i32, call putchar
execOutput ==
    /\ Running /\ CurOp.op = "Output"
    /\ Len(output) < MaxOutput
    /\ output' = Append(output, LoadCell)
    /\ Advance
    /\ UNCHANGED <<callVars, flagVars, m_statistics, moduleVars, pc, scanVars,
                   genPos, steps, errs, pre, fileVars, rstate, memory, dataPtr,
                   consumed, eof, bodyCount>>

\* what getchar may return: a byte while stdin has bytes, EOF from the end on
GetcharResults ==
    IF ~eof /\ Len(consumed) < MaxInput THEN InputBytes \cup {EOF} ELSE {EOF}

\* ',': call getchar, trunc to i8, store
execInput ==
    /\ Running /\ CurOp.op = "Input"
    /\ \E r \in GetcharResults :
          /\ memory' = StoreCell(Trunc8(r))
          /\ eof' = (r = EOF)
          /\ consumed' = IF r = EOF THEN consumed ELSE Append(consumed, r)
    /\ Advance
    /\ UNCHANGED <<callVars, flagVars, m_statistics, moduleVars, pc, scanVars,
                   genPos, steps, errs, pre, fileVars, rstate, dataPtr, output,
                   bodyCount>>

\* where the condbr of a loop header may go: t1 (the end block) when the
\* cell is 0, t2 (the body) otherwise; branching on poison is undefined
BranchTargets(v, o) ==
    IF v = Poison THEN {o.t1, o.t2}
    ELSE IF v = 0 THEN {o.t1} ELSE {o.t2}

\* loop header: load, icmp eq 0, condbr
execCondBr ==
    /\ Running /\ CurOp.op = "CondBr"
    /\ bodyCount < MaxBody
    /\ \E target \in BranchTargets(LoadCell, CurOp) :
          /\ rpc' = <<target, 1>>
          /\ bodyCount' = IF target = CurOp.t2 THEN bodyCount + 1 ELSE bodyCount
    /\ UNCHANGED <<callVars, flagVars, m_statistics, moduleVars, pc, scanVars,
                   genPos, steps, errs, pre, fileVars, rstate, memory, dataPtr,
                   consumed, eof, output>>

\* br to a loop header
execBr ==
    /\ Running /\ CurOp.op = "Br"
    /\ rpc' = <<CurOp.t1, 1>>
    /\ UNCHANGED <<callVars, flagVars, m_statistics, moduleVars, pc, scanVars,
                   genPos, steps, errs, pre, fileVars, rstate, memory, dataPtr,
                   consumed, eof, output, bodyCount>>

\* ret i32 0
execRet ==
    /\ Running /\ CurOp.op = "Ret"
    /\ rstate' = "returned"
    /\ UNCHANGED <<callVars, flagVars, m_statistics, moduleVars, pc, scanVars,
                   genPos, steps, errs, pre, fileVars, rpc, memory, dataPtr,
                   consumed, eof, output, bodyCount>>

LoadOps == {"IncByte", "DecByte", "Output", "CondBr"}
StoreOps == {"IncByte", "DecByte", "Input"}

\* the other outcomes of a load or store outside the array: the process
\* dies, or the store lands on the dataptr slot next to the array
execOutOfBounds ==
    /\ Running /\ CurOp.op \in LoadOps \cup StoreOps
    /\ ~InBounds
    /\ \/ /\ rstate' = "crashed"
          /\ UNCHANGED <<rpc, dataPtr>>
       \/ /\ CurOp.op \in StoreOps
          /\ \E p \in (-1..m_memorySize) \ {dataPtr} : dataPtr' = p
          /\ Advance
          /\ UNCHANGED rstate
    /\ UNCHANGED <<callVars, flagVars, m_statistics, moduleVars, pc, scanVars,
                   genPos, steps, errs, pre, fileVars, memory, consumed, eof,
                   output, bodyCount>>

Compile ==
    \/ setOptimization \/ setDebugInfo
    \/ compile \/ checkBracketsScan \/ checkBracketsEnd
    \/ clearStatistics \/ createMainFunction \/ allocateMemory
    \/ setupRuntimeFunctions \/ createDebugInfo
    \/ generateIREnter \/ generateIRStep \/ generateIRRet
    \/ verifyModule \/ optimizeModule
    \/ executeJIT \/ executeJITEnd \/ emitObjectFile

Run ==
    \/ runExecutable
    \/ execAlloc \/ execIncPtr \/ execDecPtr \/ execIncByte \/ execDecByte
    \/ execOutput \/ execInput \/ execCondBr \/ execBr \/ execRet
    \/ execOutOfBounds

Next == Compile \/ Run

Spec == Init /\ [][Next]_vars

NextValidate == compile \/ checkBracketsScan \/ checkBracketsEnd

SpecValidate == InitValidate /\ [][NextValidate]_vars

\* the example programs with the default memory size: main, then the
\* generated program; the processor keeps executing a running program
RunExamples ==
    \/ execAlloc \/ execIncPtr \/ execDecPtr \/ execIncByte \/ execDecByte
    \/ execOutput \/ execCondBr \/ execBr \/ execRet

NextExamples ==
    \/ setOptimization
    \/ compile \/ checkBracketsScan \/ checkBracketsEnd
    \/ clearStatistics \/ createMainFunction \/ allocateMemory
    \/ setupRuntimeFunctions
    \/ generateIREnter \/ generateIRStep \/ generateIRRet
    \/ verifyModule \/ optimizeModule
    \/ executeJIT \/ executeJITEnd \/ emitObjectFile
    \/ runExecutable
    \/ RunExamples

SpecExamples == InitExamples /\ [][NextExamples]_vars /\ WF_vars(RunExamples)

\* the programs of add.bf with small memory sizes
NextTransfer == NextExamples \/ execInput

SpecTransfer == InitTransfer /\ [][NextTransfer]_vars

\* two instances in turn
NextTwin ==
    \/ construct
    \/ compile \/ checkBracketsScan \/ checkBracketsEnd
    \/ clearStatistics \/ createMainFunction \/ allocateMemory
    \/ setupRuntimeFunctions
    \/ generateIREnter \/ generateIRStep \/ generateIRRet
    \/ verifyModule \/ optimizeModule
    \/ executeJIT \/ executeJITEnd \/ emitObjectFile
    \/ Run

SpecTwin == InitTwin /\ [][NextTwin]_vars

\* two instances in turn, each with the flags that main sets before compile
NextFlags == NextTwin \/ setOptimization \/ setDebugInfo \/ createDebugInfo

SpecFlags == InitTwin /\ [][NextFlags]_vars

\* compile from its second statement on, to a file
NextTranslate ==
    \/ clearStatistics \/ createMainFunction \/ allocateMemory
    \/ setupRuntimeFunctions
    \/ generateIREnter \/ generateIRStep \/ generateIRRet
    \/ verifyModule \/ optimizeModule \/ emitObjectFile

SpecTranslate == InitTranslate /\ [][NextTranslate]_vars

\* the translation with memory sizes of 32 bits and more
NextSize ==
    \/ compile \/ checkBracketsScan \/ checkBracketsEnd
    \/ clearStatistics \/ createMainFunction \/ allocateMemory
    \/ setupRuntimeFunctions
    \/ generateIREnter \/ generateIRStep \/ generateIRRet

SpecSize == InitSize /\ [][NextSize]_vars

\* compile up to the verification, for sources of any nesting
NextLoops == NextSize \/ verifyModule

SpecLoops == InitLoops /\ [][NextLoops]_vars

(***************************************************************************)
(* Operators used to state the properties                                  *)
(***************************************************************************)
Range(s) == {s[k] : k \in DOMAIN s}
IsPrefix(a, b) == Len(a) <= Len(b) /\ \A k \in 1..Len(a) : a[k] = b[k]

Delta(c) == IF c = "[" THEN 1 ELSE IF c = "]" THEN -1 ELSE 0
RECURSIVE RunningCount(_, _)
RunningCount(s, k) == IF k = 0 THEN 0 ELSE RunningCount(s, k - 1) + Delta(s[k])
NeverNegative(s) == \A k \in 0..Len(s) : RunningCount(s, k) >= 0
Balanced(s) == NeverNegative(s) /\ RunningCount(s, Len(s)) = 0
\* 1-based index of the first ']' that makes the running count negative
FirstNegative(s) == CHOOSE k \in 1..Len(s) :
                       /\ RunningCount(s, k) < 0
                       /\ \A j \in 0..(k - 1) : RunningCount(s, j) >= 0

LastError == errs[Len(errs)]
\* the step taken executes the instruction at rpc and goes on
Executes(name) == Running /\ CurOp.op = name /\ rpc' # rpc /\ rstate' = "running"

(***************************************************************************)
(* C1.  In the generated program '+' and '-' wrap modulo 256 for every     *)
(* cell value: 255 + 1 = 0, 0 - 1 = 255, and v + 1, v - 1 otherwise        *)
(* (127 -> 128 and 128 -> 127 included).                                   *)
(***************************************************************************)
C1_CellArithmeticWraps ==
    [][/\ (Executes("IncByte") /\ InBounds /\ memory[dataPtr] \in Byte)
            => memory'[dataPtr] = (memory[dataPtr] + 1) % 256
       /\ (Executes("DecByte") /\ InBounds /\ memory[dataPtr] \in Byte)
            => memory'[dataPtr] = (memory[dataPtr] - 1) % 256]_vars

(***************************************************************************)
(* C2.  In the generated program '>' and '<' move the cursor modulo the    *)
(* memory size N: N-1 -> 0 on '>', 0 -> N-1 on '<', +1 / -1 otherwise.     *)
(***************************************************************************)
C2_CursorWraps ==
    [][/\ (Executes("IncPtr") /\ InBounds) => dataPtr' = (dataPtr + 1) % m_memorySize
       /\ (Executes("DecPtr") /\ InBounds) => dataPtr' = (dataPtr - 1) % m_memorySize]_vars

(***************************************************************************)
(* C3.  While the generated program runs, the cursor is an index in        *)
(* 0..N-1, so every cell access is inside the array.                       *)
(***************************************************************************)
C3_CursorInBounds == rstate \in {"running", "returned"} => InBounds

(***************************************************************************)
(* C4.  On every arrival at a loop header the body is entered iff the      *)
(* current cell is nonzero, otherwise control goes to the block after the  *)
(* matching ']'.                                                           *)
(***************************************************************************)
C4_LoopHeaderTest ==
    [][Executes("CondBr") =>
          /\ (rpc' = <<CurOp.t2, 1>>) <=> (LoadCell # 0)
          /\ (rpc' = <<CurOp.t1, 1>>) <=> (LoadCell = 0)]_vars

(***************************************************************************)
(* C5.  checkBrackets accepts a source iff its brackets are balanced: the  *)
(* running count is never negative at a prefix and is zero at the end.     *)
(***************************************************************************)
CheckReturned == callNo >= 1 /\ pc \in {"clearStatistics", "done"}
CheckAccepted == callNo >= 1 /\ pc = "clearStatistics"

C5_AcceptsIffBalanced == CheckReturned => (CheckAccepted <=> Balanced(source))

C5_Witness ==
    /\ CheckAccepted
    /\ Len(source) >= 4
    /\ \E k \in 1..Len(source) : RunningCount(source, k) = 2

(***************************************************************************)
(* C6.  When the running count becomes negative, validation fails at the   *)
(* first such ']' without scanning further, with an error for the unmatched*)
(* close bracket whose reported position is the source offset of that ']'. *)
(***************************************************************************)
C6_CloseBracketPosition ==
    (CheckReturned /\ ~NeverNegative(source)) =>
        /\ pc = "done" /\ result = FALSE
        /\ scanPos = FirstNegative(source)
        /\ LastError.kind = "ExtraRightBracket"
        /\ LastError.pos = FirstNegative(source) - 1

(***************************************************************************)
(* C7.  When the running count is never negative but nonzero at the end,   *)
(* validation fails only after the whole source has been scanned, with an  *)
(* error distinct from the unmatched-close error and carrying no position  *)
(* inside the source (it is raised at end of source).                      *)
(***************************************************************************)
OpenLeft(s) == NeverNegative(s) /\ RunningCount(s, Len(s)) # 0

AfterCheck == pc \notin {"idle", "checkBrackets", "done", "crashed"}
CheckFailed == callNo >= 1 /\ pc = "done" /\ (bracketCount # 0 \/ scanPos <= Len(source))

C8_ValidationFirst ==
    /\ (AfterCheck \/ Len(steps) >= 2) =>
          /\ steps[1] = "checkBrackets"
          /\ scanPos = Len(source) + 1
          /\ bracketCount = 0
          /\ Balanced(source)
    /\ (callNo >= 1 /\ pc = "done" /\ ~Balanced(source)) => CheckFailed
    /\ CheckFailed =>
          /\ result = FALSE
          /\ steps = <<"checkBrackets">>
          /\ m_blocks = pre.blocks
          /\ m_loopStartBlocks = pre.loopStart
          /\ m_loopEndBlocks = pre.loopEnd
          /\ m_statistics = pre.stats
          /\ m_moduleValid = pre.moduleValid

C8_Witness ==
    /\ CheckFailed
    /\ callNo = 2
    /\ DOMAIN pre.stats # {}
    /\ DOMAIN pre.blocks # {}

(***************************************************************************)
(* C9.  The program generated from ,[.,] copies its input byte for byte    *)
(* and returns when the input reaches end of stream (getchar returning -1, *)
(* truncated to 8 bits): at no time has it written anything but a prefix   *)
(* of its input, and when it has returned the input is exhausted and the   *)
(* output equals the input.  (Stated for inputs without a 0 byte.)         *)
(***************************************************************************)
C9_CatCopiesInput ==
    (source = CatSource /\ rstate \in {"running", "returned"} /\ 0 \notin Range(consumed)) =>
        /\ IsPrefix(output, consumed)
        /\ rstate = "returned" => (eof /\ output = consumed)

(***************************************************************************)
(* C10.  The loop [-], reached with v in 1..255 in the current cell (here  *)
(* read by a leading ','), ends with the cell 0 after exactly v body       *)
(* executions, the cursor and the other cells unchanged.                   *)
(***************************************************************************)
C10_ClearLoop ==
    (source = ClearSource /\ rstate = "returned" /\ Len(consumed) = 1 /\ consumed[1] >= 1) =>
        /\ dataPtr = InitialIndex(m_memorySizeHigh, m_memorySize)
        /\ memory = [k \in 0..(m_memorySize - 1) |-> 0]
        /\ bodyCount = consumed[1]

(***************************************************************************)
(* C11.  The program generated from hello.bf with the default memory size  *)
(* terminates having written exactly "Hello World!" and a newline; on the  *)
(* way the cursor stays in the array, no '+' is executed on 255 or 127 and *)
(* no '-' on 0 or 128, and no cell holds an undefined value.               *)
(***************************************************************************)
HelloRuns == source = HelloSource /\ rstate \in {"running", "returned"}

C11_HelloSafe ==
    HelloRuns =>
        /\ m_memorySize = DefaultMemorySize
        /\ InBounds
        /\ IsPrefix(output, HelloOutput)
        /\ memory # <<>> => LoadCell \in Byte
        /\ (Running /\ CurOp.op = "IncByte") => LoadCell \notin {127, 255}
        /\ (Running /\ CurOp.op = "DecByte") => LoadCell \notin {0, 128}
        /\ rstate = "returned" => output = HelloOutput

C12_TransferLoop ==
    (/\ source = TransferSource
     /\ rstate = "returned"
     /\ Len(consumed) = 1) =>
        /\ output = <<(1 + consumed[1]) % 256>>
        /\ dataPtr = InitialIndex(m_memorySizeHigh, m_memorySize)
        /\ memory[dataPtr] = (1 + consumed[1]) % 256
        /\ memory[dataPtr + 1] = 0

(***************************************************************************)
(* C13.  For every memory size N >= 1, however large, the index of the     *)
(* initial data pointer emitted by allocateMemory is floor(N / 2), which   *)
(* is an index of the array: 0 <= floor(N / 2) < N.  (N is                 *)
(* m_memorySizeHigh * 2^31 + m_memorySize; floor(N / 2) has the high part  *)
(* m_memorySizeHigh \div 2 and the low part                                *)
(* (m_memorySizeHigh % 2) * 2^30 + m_memorySize \div 2.)                   *)
(***************************************************************************)
Allocated == callNo >= 1 /\ "allocateMemory" \in Range(steps) /\ m_moduleValid
EmittedIndex == m_blocks[EntryBlock(m_mainFunction)][1].t1[3]

C13_InitialIndex ==
    Allocated =>
        /\ m_blocks[EntryBlock(m_mainFunction)][1].op = "Alloc"
        /\ m_blocks[EntryBlock(m_mainFunction)][1].t1[1] = m_memorySize
        /\ EmittedIndex >= 0
        /\ m_memorySizeHigh \div 2 = 0
        /\ EmittedIndex = (m_memorySizeHigh % 2) * TwoTo30 + m_memorySize \div 2
        /\ m_memorySizeHigh = 0 => EmittedIndex < m_memorySize

(***************************************************************************)
(* C14.  Once generateIR has returned, the statistics hold for each of the *)
(* eight instruction characters the number of its occurrences in the       *)
(* source of this call (a character that does not occur has no entry or    *)
(* none is read), their sum is the number of instruction characters of the *)
(* source, and no other key is in the map.                                 *)
(***************************************************************************)
TranslationDone == callNo >= 1 /\ "generateIR" \in Range(steps) /\ pc # "generateIRLoop"
Occurrences(s, c) == Cardinality({k \in DOMAIN s : s[k] = c})
RECURSIVE SumCounts(_, _)
SumCounts(stats, keys) ==
    IF keys = {} THEN 0
    ELSE LET c == CHOOSE x \in keys : TRUE
         IN stats[c] + SumCounts(stats, keys \ {c})

C14_StatisticsCount ==
    TranslationDone =>
        /\ DOMAIN m_statistics \subseteq Instructions
        /\ \A c \in Instructions : Count(m_statistics, c) = Occurrences(source, c)
        /\ \A c \in DOMAIN m_statistics : m_statistics[c] >= 1
        /\ SumCounts(m_statistics, DOMAIN m_statistics) = Len(Strip(source))

C14_Witness ==
    /\ TranslationDone
    /\ Len(source) = 2
    /\ "x" \in Range(source)
    /\ Cardinality(DOMAIN m_statistics) = 1

(***************************************************************************)
(* C15.  Characters outside the eight instructions are comments: an        *)
(* instance given a source S and another instance given S with every       *)
(* non-instruction character deleted agree on the validation result and    *)
(* its error, on the statistics and on the emitted blocks, instruction for *)
(* instruction and branch for branch, the loop blocks being numbered by    *)
(* the offset of their '[' in the respective source; the translation of S  *)
(* reports no error.                                                       *)
(***************************************************************************)
\* offset in Strip(s) of the instruction at offset ip of s
RenameIP(s, ip) == Len(Strip(SubSeq(s, 1, ip)))
RenameBlock(s, id) ==
    IF id[2] \in {"entry", "none"} THEN id ELSE <<id[1], id[2], RenameIP(s, id[3])>>
RenameOp(s, o) ==
    IF o.op \in {"Br", "CondBr"}
    THEN [op |-> o.op, t1 |-> RenameBlock(s, o.t1), t2 |-> RenameBlock(s, o.t2)]
    ELSE o
SameTranslation(s, a, b) ==
    /\ DOMAIN b = {RenameBlock(s, id) : id \in DOMAIN a}
    /\ \A id \in DOMAIN a :
          /\ Len(b[RenameBlock(s, id)]) = Len(a[id])
          /\ \A k \in 1..Len(a[id]) : b[RenameBlock(s, id)][k] = RenameOp(s, a[id][k])
ErrorKinds(e) == [k \in 1..Len(e) |-> e[k].kind]
IsFrontError(e) == e.kind \in {"ExtraRightBracket", "BracketMismatch", "InvalidIR"}

StrippedDone ==
    /\ pre.first.made
    /\ callNo = 1
    /\ source = Strip(pre.first.source)
    /\ pc = "done"

C15_CommentsIgnored ==
    StrippedDone =>
        /\ (Len(steps) >= 2) = pre.first.validated
        /\ ErrorKinds(SelectSeq(errs, IsFrontError))
              = ErrorKinds(SelectSeq(pre.first.errs, IsFrontError))
        /\ pre.first.validated =>
              /\ SelectSeq(pre.first.errs, IsFrontError) = <<>>
              /\ m_statistics = pre.first.stats
              /\ SameTranslation(pre.first.source, pre.first.blocks, m_blocks)

C15_Witness ==
    /\ StrippedDone
    /\ pre.first.validated
    /\ Len(pre.first.source) > Len(source)
    /\ \E id \in DOMAIN pre.first.blocks : id \notin DOMAIN m_blocks

(***************************************************************************)
(* C16.  ',' stores in the current cell the value returned by getchar      *)
(* reduced modulo 256 and changes no other cell, nor the cursor, nor the   *)
(* output; the value -1 returned at end of input is stored as 255.         *)
(***************************************************************************)
\* what getchar returned in the step taken
Returned == IF consumed' = consumed THEN EOF ELSE consumed'[Len(consumed')]

FunctionBlocks == {id \in DOMAIN m_blocks : id[1] = m_mainFunction}
RetPlaces == {p \in UNION {{<<id, k>> : k \in 1..Len(m_blocks[id])} : id \in FunctionBlocks} :
                 m_blocks[p[1]][p[2]].op = "Ret"}
\* 1-based index of the last ']' of s, 0 when there is none
LastClose(s) == IF "]" \in Range(s) THEN CHOOSE j \in 1..Len(s) :
                     s[j] = "]" /\ \A k \in (j + 1)..Len(s) : s[k] # "]"
                ELSE 0
\* 1-based index of the '[' that the ']' at index j closes
Matching(s, j) == CHOOSE i \in 1..(j - 1) :
                     /\ s[i] = "["
                     /\ RunningCount(s, i - 1) = RunningCount(s, j)
                     /\ \A k \in i..(j - 1) : RunningCount(s, k) > RunningCount(s, j)
FinalBlock(s) ==
    IF LastClose(s) = 0 THEN EntryBlock(m_mainFunction)
    ELSE <<m_mainFunction, "loop_end", Matching(s, LastClose(s)) - 1>>

C17_SingleReturn ==
    /\ TranslationDone =>
          /\ Cardinality(RetPlaces) = 1
          /\ m_insert = FinalBlock(source)
          /\ RetPlaces = {<<m_insert, Len(m_blocks[m_insert])>>}
          /\ m_blocks[m_insert][Len(m_blocks[m_insert])].t1 = 0
    /\ rstate = "returned" => (CurOp.op = "Ret" /\ CurOp.t1 = 0)

C17_Witness ==
    /\ callNo = 1
    /\ source = NestedSource
    /\ rstate = "returned"
    /\ m_insert = <<1, "loop_end", 5>>
    /\ rpc[1] = m_insert
    /\ CurOp.op = "Ret"

(***************************************************************************)
(* C18.  Two instances of the same memory size given the same validated    *)
(* source yield equal statistics and equal blocks, and their generated     *)
(* programs behave alike: run on the same input, both write the same bytes *)
(* and end the same way.                                                   *)
(***************************************************************************)
SameSourceTwice == pre.first.made /\ callNo = 1 /\ source = pre.first.source
Ended(r) == r \in {"returned", "crashed"}
SameInput == consumed = pre.first.consumed /\ eof = pre.first.eof

C18_Deterministic ==
    /\ (SameSourceTwice /\ pre.first.validated /\ TranslationDone) =>
          /\ m_statistics = pre.first.stats
          /\ m_blocks = pre.first.blocks
    /\ (SameSourceTwice /\ Ended(pre.first.ran) /\ Ended(rstate) /\ SameInput) =>
          /\ output = pre.first.output
          /\ rstate = pre.first.ran

(***************************************************************************)
(* C19.  Every failure is returned to the caller: when a step of compile   *)
(* has reported an error (validation, verification, target lookup, opening *)
(* the object file, emission, link, creation of the JIT engine), compile   *)
(* returns false and main exits with a nonzero status; compile returns     *)
(* true only when the executable was produced or the JIT run was made.     *)
(***************************************************************************)
FirstCallReturned == callNo = 1 /\ pc = "done"

C19_FailuresReturned ==
    FirstCallReturned =>
        /\ errs # <<>> => (result = FALSE /\ MainExit # 0)
        /\ result = TRUE =>
              IF enableJIT THEN "executeJIT" \in Range(steps) /\ rstate = "returned"
              ELSE exeFile

(***************************************************************************)
(* C20.  A failed compilation leaves no artifact: when a step of compile   *)
(* has failed, neither the executable nor the object file <output>.o       *)
(* exists when compile returns; after a successful compilation to a file   *)
(* the executable exists and <output>.o has been removed.                  *)
(***************************************************************************)
C20_NoArtifactOnFailure ==
    FirstCallReturned =>
        /\ errs # <<>> => (~objFile /\ ~exeFile)
        /\ (errs = <<>> /\ ~enableJIT) => (exeFile /\ ~objFile)

(***************************************************************************)
(* C21.  The flags are pass-through hints.  Two instances given the same   *)
(* validated source, whatever their optimization flag, debug-info flag and *)
(* mode, yield equal statistics and equal blocks; and once compile has     *)
(* returned for a validated source, optimizeModule has run iff the         *)
(* optimization flag is set, executeJIT iff the mode is JIT and            *)
(* emitObjectFile iff it is not.                                           *)
(***************************************************************************)
ValidatedCallReturned == FirstCallReturned /\ "generateIR" \in Range(steps)

C21_FlagsPassThrough ==
    /\ (SameSourceTwice /\ pre.first.validated /\ TranslationDone) =>
          /\ m_statistics = pre.first.stats
          /\ m_blocks = pre.first.blocks
    /\ ValidatedCallReturned =>
          /\ ("optimizeModule" \in Range(steps)) <=> m_enableOptimization
          /\ ("executeJIT" \in Range(steps)) <=> enableJIT
          /\ ("emitObjectFile" \in Range(steps)) <=> ~enableJIT

(***************************************************************************)
(* C22.  When handleLoopEnd is called with an empty loop stack, the        *)
(* compilation is aborted: the ']' it was called for stays the last        *)
(* character translated, no ret is emitted after it, no backend step runs  *)
(* and compile returns false.                                              *)
(***************************************************************************)
\* the errors reported by handleLoopEnd: they carry the offset of the ']'
IsInternalError(e) == e.kind = "ExtraRightBracket" /\ e.pos # NoPos
BackendSteps == {"optimizeModule", "executeJIT", "emitObjectFile"}

Depth == Len(m_loopStartBlocks)
\* the step taken is an iteration of the for loop of generateIR
Translates == pc = "generateIRLoop" /\ genPos' = genPos + 1

C23_DepthInvariant ==
    /\ [](pc = "generateIRLoop" =>
            /\ Depth = RunningCount(source, genPos - 1)
            /\ Len(m_loopEndBlocks) = RunningCount(source, genPos - 1))
    /\ [][Translates =>
            /\ source[genPos] = "[" => Depth' = Depth + 1
            /\ (source[genPos] = "]" /\ Depth >= 1) => Depth' = Depth - 1
            /\ source[genPos] \notin {"[", "]"} => Depth' = Depth]_vars

C23_Witness ==
    /\ pc = "generateIRLoop"
    /\ source = <<"[", "[", "[", "]", "]", "]">>
    /\ genPos = 5
    /\ Depth = 2

(***************************************************************************)
(* C24.  For a source that checkBrackets accepted, handleLoopEnd is never  *)
(* called with an empty stack, so it reports no error, and both loop       *)
(* stacks are empty when generateIR has reached the end of the source.     *)
(***************************************************************************)
\* the next iteration of generateIR calls handleLoopEnd
AtLoopEnd == pc = "generateIRLoop" /\ genPos <= Len(source) /\ source[genPos] = "]"

C24_ValidatorAgrees ==
    /\ AtLoopEnd => (m_loopStartBlocks # <<>> /\ m_loopEndBlocks # <<>>)
    /\ \A k \in 1..Len(errs) : ~IsInternalError(errs[k])
    /\ (pc = "generateIRLoop" /\ genPos > Len(source)) =>
          (m_loopStartBlocks = <<>> /\ m_loopEndBlocks = <<>>)
    /\ TranslationDone => (m_loopStartBlocks = <<>> /\ m_loopEndBlocks = <<>>)

C24_Witness ==
    /\ TranslationDone
    /\ source = <<"[", "]", "[", "[", "]", "]">>
    /\ m_loopStartBlocks = <<>> /\ m_loopEndBlocks = <<>>
    /\ errs = <<>>

(***************************************************************************)
(* C25.  Loops are matched last in, first out.  The translation of a ']'   *)
(* appends to the current block a jump to the header block of the nearest  *)
(* preceding unclosed '[' and makes the exit block of that same '[' the    *)
(* current block; every instruction is appended to the current block, so   *)
(* what follows the ']' goes to that exit block.  The header block of a    *)
(* '[' holds one conditional branch, to the exit block and the body block  *)
(* of that '['.                                                            *)
(***************************************************************************)
HeaderOf(i) == <<m_mainFunction, "loop_header", i - 1>>
BodyOf(i) == <<m_mainFunction, "loop_body", i - 1>>
ExitOf(i) == <<m_mainFunction, "loop_end", i - 1>>
\* 1-based indices of the '[' translated so far in this call
OpenedSoFar == {i \in 1..(genPos - 1) : i <= Len(source) /\ source[i] = "["}

C25_HeadersWired ==
    (callNo >= 1 /\ "generateIR" \in Range(steps)) =>
        \A i \in OpenedSoFar :
            m_blocks[HeaderOf(i)] = <<Op("CondBr", ExitOf(i), BodyOf(i))>>

C25_LoopsMatchLIFO ==
    /\ []C25_HeadersWired
    /\ [][Translates =>
            /\ source[genPos] = "]" =>
                  /\ m_blocks'[m_insert] =
                        Append(m_blocks[m_insert],
                               Op("Br", HeaderOf(Matching(source, genPos)), NoBlock))
                  /\ m_insert' = ExitOf(Matching(source, genPos))
                  /\ \A id \in DOMAIN m_blocks \ {m_insert} : m_blocks'[id] = m_blocks[id]
            /\ source[genPos] = "+" =>
                  /\ m_insert' = m_insert
                  /\ m_blocks' = [m_blocks EXCEPT ![m_insert] =
                                     Append(@, Op("IncByte", NoBlock, NoBlock))]
            /\ source[genPos] = "[" =>
                  /\ m_insert' = BodyOf(genPos)
                  /\ m_blocks'[m_insert] =
                        Append(m_blocks[m_insert], Op("Br", HeaderOf(genPos), NoBlock))]_vars

C25_Witness ==
    /\ TranslationDone
    /\ source = <<"[", "[", "]", "+", "]">>
    /\ m_blocks[<<1, "loop_body", 1>>] = <<Op("Br", <<1, "loop_header", 1>>, NoBlock)>>
    /\ m_blocks[<<1, "loop_end", 1>>] = <<Op("IncByte", NoBlock, NoBlock),
                                          Op("Br", <<1, "loop_header", 0>>, NoBlock)>>
    /\ m_insert = <<1, "loop_end", 0>>

(***************************************************************************)
(* C26.  The two loop stacks always have the same size, and the entries at *)
(* the same position are the header block and the exit block created by    *)
(* the same '[' (same function, same source offset); so the jump emitted   *)
(* for a ']' goes to the header of the loop whose exit block becomes the   *)
(* current block.                                                          *)
(***************************************************************************)
StacksPaired ==
    /\ Len(m_loopStartBlocks) = Len(m_loopEndBlocks)
    /\ \A k \in 1..Len(m_loopStartBlocks) :
          /\ k <= Len(m_loopEndBlocks)
          /\ m_loopStartBlocks[k][2] = "loop_header"
          /\ m_loopEndBlocks[k][2] = "loop_end"
          /\ m_loopStartBlocks[k][1] = m_loopEndBlocks[k][1]
          /\ m_loopStartBlocks[k][3] = m_loopEndBlocks[k][3]

C26_StacksInStep ==
    /\ []StacksPaired
    /\ [][(Translates /\ source[genPos] = "]" /\ m_loopStartBlocks # <<>>) =>
            LET br == m_blocks'[m_insert][Len(m_blocks'[m_insert])]
            IN /\ br.op = "Br"
               /\ br.t1[2] = "loop_header" /\ m_insert'[2] = "loop_end"
               /\ br.t1[1] = m_insert'[1]
               /\ br.t1[3] = m_insert'[3]]_vars

C26_Witness ==
    /\ pc = "generateIRLoop"
    /\ source = <<"+", "[", "[", "+", "]", "]">>
    /\ genPos = 5
    /\ m_loopStartBlocks = <<<<1, "loop_header", 1>>, <<1, "loop_header", 2>>>>
    /\ m_loopEndBlocks = <<<<1, "loop_end", 1>>, <<1, "loop_end", 2>>>>

(***************************************************************************)
(* C27.  When generateIR has returned for a source that checkBrackets      *)
(* accepted, every block of the function (the entry block and the header,  *)
(* body and exit block of each loop) holds exactly one terminator, which   *)
(* is its last instruction, and is reachable from the entry block through  *)
(* the emitted branches; and no step of the translation appends an         *)
(* instruction to a block that already ends with a terminator.             *)
(***************************************************************************)
TerminatorPlaces(b) == {k \in 1..Len(b) : b[k].op \in Terminators}
\* the blocks that the branches of block id name
Successors(id) ==
    UNION {IF m_blocks[id][k].op = "Br" THEN {m_blocks[id][k].t1}
           ELSE IF m_blocks[id][k].op = "CondBr"
                THEN {m_blocks[id][k].t1, m_blocks[id][k].t2}
                ELSE {} : k \in 1..Len(m_blocks[id])}
RECURSIVE ReachableFrom(_)
ReachableFrom(seen) ==
    LET more == seen \cup UNION {Successors(id) : id \in seen}
    IN IF more = seen THEN seen ELSE ReachableFrom(more)
\* the blocks that the function must have: one entry, three for each '['
ExpectedBlocks ==
    {EntryBlock(m_mainFunction)}
    \cup UNION {{HeaderOf(i), BodyOf(i), ExitOf(i)} :
                   i \in {j \in 1..Len(source) : source[j] = "["}}

C27_BlocksWellFormed ==
    TranslationDone =>
        /\ FunctionBlocks = ExpectedBlocks
        /\ \A id \in FunctionBlocks :
              /\ TerminatorPlaces(m_blocks[id]) = {Len(m_blocks[id])}
              /\ Len(m_blocks[id]) >= 1
        /\ ReachableFrom({EntryBlock(m_mainFunction)}) = FunctionBlocks

C27_WellFormedCFG ==
    /\ []C27_BlocksWellFormed
    /\ [][\A id \in DOMAIN m_blocks :
              m_blocks'[id] # m_blocks[id] => TerminatorPlaces(m_blocks[id]) = {}]_vars

C27_Witness ==
    /\ TranslationDone
    /\ source = <<"[", "[", "]", "]", "[", "]">>
    /\ Cardinality(FunctionBlocks) = 10
    /\ ReachableFrom({EntryBlock(m_mainFunction)}) = FunctionBlocks
    /\ pc = "optimizeModule"

(***************************************************************************)
(* C28.  Frame conditions of the generated instructions.  '+', '-' and ',' *)
(* leave the cursor and every cell but the one under the cursor as they    *)
(* are; '>' and '<' leave every cell as it is; '.' and the test of a loop  *)
(* header leave the cursor and every cell as they are; the output grows    *)
(* only by '.', and input is consumed only by ','.                         *)
(***************************************************************************)
OtherCellsKept == \A k \in DOMAIN memory : k # dataPtr => memory'[k] = memory[k]
ExecutesOneOf(names) == \E name \in names : Executes(name)

C28_FrameConditions ==
    [][/\ ExecutesOneOf({"IncByte", "DecByte", "Input"}) =>
             (dataPtr' = dataPtr /\ OtherCellsKept)
       /\ ExecutesOneOf({"IncPtr", "DecPtr"}) => memory' = memory
       /\ ExecutesOneOf({"Output", "CondBr"}) => (dataPtr' = dataPtr /\ memory' = memory)
       /\ (Running /\ output' # output) => Executes("Output")
       /\ (Running /\ (consumed' # consumed \/ eof' # eof)) => Executes("Input")]_vars

(***************************************************************************)
(* C29.  The steps of a compile call occur in one order: the bracket       *)
(* check, the reset of the statistics, the main function, the memory, the  *)
(* runtime functions, the debug info (only if enabled), generateIR, the    *)
(* verification, optimizeModule (only if enabled), then one of executeJIT  *)
(* and emitObjectFile; a call that returns true has made all of them.  If  *)
(* the verification reports invalid IR, compile returns false and the      *)
(* verification is its last step.                                          *)
(***************************************************************************)
PipelineOrder ==
    <<"checkBrackets", "clearStatistics", "createMainFunction", "allocateMemory",
      "setupRuntimeFunctions">>
    \o (IF m_enableDebugInfo THEN <<"createDebugInfo">> ELSE <<>>)
    \o <<"generateIR", "verifyModule">>
    \o (IF m_enableOptimization THEN <<"optimizeModule">> ELSE <<>>)
    \o <<IF enableJIT THEN "executeJIT" ELSE "emitObjectFile">>
\* the errors reported by the current call
CallErrors == SubSeq(errs, Len(pre.errs) + 1, Len(errs))
InvalidIRReported == \E k \in 1..Len(CallErrors) : CallErrors[k].kind = "InvalidIR"

C29_PipelineOrder ==
    callNo >= 1 =>
        /\ IsPrefix(steps, PipelineOrder)
        /\ (pc = "done" /\ result = TRUE) => steps = PipelineOrder
        /\ InvalidIRReported =>
              /\ pc = "done" /\ result = FALSE
              /\ steps[Len(steps)] = "verifyModule"
              /\ Range(steps) \cap BackendSteps = {}

C29_Witness ==
    /\ callNo = 1
    /\ InvalidIRReported
    /\ pc = "done" /\ result = FALSE
    /\ m_enableOptimization /\ enableJIT
    /\ "[" \in Range(source)
    /\ steps[Len(steps)] = "verifyModule"

(***************************************************************************)
(* C30.  An instance can be reused.  In every compile call, the first or a *)
(* later one, the module is valid when the call needs it, and once         *)
(* generateIR has returned the statistics count the source of this call    *)
(* only and the module holds the blocks of this call's function only, as   *)
(* they would be after the same call on a fresh instance.                  *)
(***************************************************************************)
NeedsModule == callNo >= 1 /\ Len(steps) >= 2

C30_InstanceReusable ==
    /\ NeedsModule => pre.moduleValid
    /\ (callNo >= 1 /\ pc = "crashed") => rstate = "crashed"
    /\ TranslationDone =>
          /\ \A c \in Instructions : Count(m_statistics, c) = Occurrences(source, c)
          /\ DOMAIN m_blocks = FunctionBlocks
          /\ FunctionBlocks = ExpectedBlocks

====
